---- MODULE Spec2Model ----
(***************************************************************************)
(* Mood-aware shuffle player (src/src/main.py): cache load / library scan, *)
(* mood prompt, distance -> probability conversion, weighted sampling      *)
(* without replacement, and the sequential playback loop.                  *)
(*                                                                         *)
(* Reals are fixed-point integers in units of 1/One.  Like an IEEE double  *)
(* the format has a smallest positive value (here 1/One): a result below   *)
(* it underflows to 0, and 0/0 is NaN.                                     *)
(***************************************************************************)
EXTENDS Integers, Sequences, FiniteSets, TLC

\* ------------------------------------------------------------------ bounds
One == 1000
ExpTerms == 6
MaxSongs == 3
MaxFiles == 2
MaxCached == 2
MaxInputLen == 7

\* ------------------------------------------------------- fixed-point reals
NaN == -1

Half == One \div 2

IsNaN(v) == v = NaN

FMul(a, b) == (a * b) \div One

FDiv(a, b) == (a * One) \div b

Abs(a) == IF a < 0 THEN -a ELSE a

\* np.clip(x, 0, 1)
Clip(x) == IF x < 0 THEN 0 ELSE IF x > One THEN One ELSE x

RECURSIVE SqrtIter(_, _)
SqrtIter(n, r) ==
    LET r2 == (r + n \div r) \div 2
    IN  IF r2 >= r THEN r ELSE SqrtIter(n, r2)

\* floor(sqrt(n))
ISqrt(n) == IF n = 0 THEN 0 ELSE SqrtIter(n, n)

\* exp(-1) in units of 1/One
ExpInv == (One * 368) \div 1000

RECURSIVE PowExpInv(_, _)
PowExpInv(n, acc) ==
    IF n = 0 \/ acc = 0 THEN acc ELSE PowExpInv(n - 1, FMul(acc, ExpInv))

RECURSIVE ExpSeries(_, _, _)
\* 1 - f(1 - f/2 (1 - f/3 ( ... ))) for 0 <= f < One
ExpSeries(f, k, acc) ==
    IF k = 0 THEN acc ELSE ExpSeries(f, k - 1, One - (FMul(f, acc) \div k))

\* np.exp(-x) for x >= 0: exp(-1)^floor(x) * exp(-frac(x)); underflows to 0
ExpNeg(x) ==
    FMul(PowExpInv(x \div One, One), ExpSeries(x % One, ExpTerms, One))

RECURSIVE SumSeq(_)
SumSeq(s) == IF s = << >> THEN 0 ELSE Head(s) + SumSeq(Tail(s))

\* ------------------------------------------------------------------- moods
Neutral == <<Half, Half, Half, Half>>

Zeros == <<0, 0, 0, 0>>

Ones == <<One, One, One, One>>

\* mood vectors the ordering engine is exercised on
MoodSet == {Zeros, Neutral, Ones, <<One, 0, 0, 0>>}

\* positive temperatures: the smallest positive value, the default of
\* calculate_probabilities (0.5) and the one main passes (0.6)
DefaultTemperature == (One * 5) \div 10

MainTemperature == (One * 6) \div 10

Temperatures == {1, DefaultTemperature, MainTemperature}

\* ------------------------------------------------ distance -> probability
\* np.linalg.norm(np.array(user_mood) - np.array(song_mood))
mood_similarity(um, sm) ==
    ISqrt(SumSeq([i \in 1..4 |-> (um[i] - sm[i]) * (um[i] - sm[i])]))

Distances(sgs, um) ==
    [i \in 1..Len(sgs) |-> mood_similarity(um, sgs[i].mood_vector)]

\* np.exp(-distances / temperature)
Similarity(sgs, um, t) ==
    [i \in 1..Len(sgs) |-> ExpNeg(FDiv(Distances(sgs, um)[i], t))]

\* similarity / similarity.sum(): elementwise; x/0 with x = 0 is NaN (numpy
\* warns and goes on), and every weight is 0 when the sum is 0
Normalize(sim) ==
    LET s == SumSeq(sim)
    IN  [i \in 1..Len(sim) |-> IF s = 0 THEN NaN ELSE FDiv(sim[i], s)]

\* calculate_probabilities never raises for temperature > 0: it returns the
\* array, whatever it holds
calculate_probabilities(sgs, um, t) == Normalize(Similarity(sgs, um, t))

\* ------------------------------------------------------------------- state
VARIABLES
    force_rescan,     \* "--rescan" in sys.argv
    cache,            \* playlist_cache.json on disk
    cache0,           \* the artifact as it was when the run started
    files,            \* the .flac files under root_folder, in sorted order
    songs,            \* main's songs
    called,           \* the functions called so far
    pc,               \* where the run is
    err,              \* the exception that ended the run, "" if none
    inp,              \* the line typed at the mood prompt
    user_mood,        \* what ask_user_mood returned
    notice,           \* what ask_user_mood told the user
    temperature,      \* generate_playlist_order's temperature
    probabilities,    \* what calculate_probabilities returned
    p,                \* choice's working copy of the probabilities
    found,            \* choice's flat_found[0:n_uniq]
    playlist_order,   \* what generate_playlist_order returned
    pos,              \* how many entries of playlist_order the loop consumed
    player,           \* the current track's vlc player
    played,           \* the indices displayed and started, in order
    interrupted       \* a KeyboardInterrupt was delivered during playback

envVars == <<force_rescan, cache, cache0, files>>

mainVars == <<songs, called>>

moodVars == <<inp, user_mood, notice>>

orderVars == <<temperature, probabilities, p, found, playlist_order>>

playVars == <<pos, player, played, interrupted>>

vars == <<envVars, mainVars, pc, err, moodVars, orderVars, playVars>>

\* Python values of songs: None, a list, a dict (empty or not)
PyNone == [kind |-> "None", items |-> << >>]

PyList(items) == [kind |-> "list", items |-> items]

PyDict(n) == [kind |-> IF n = 0 THEN "dict0" ELSE "dict", items |-> << >>]

\* Python truthiness, as `if not songs` applies it
Truthy(v) ==
    CASE v.kind = "None" -> FALSE
      [] v.kind = "dict0" -> FALSE
      [] v.kind = "dict" -> TRUE
      [] v.kind = "list" -> Len(v.items) > 0

Raise(e) == pc' = "crashed" /\ err' = e

\* ------------------------------------------ generate_playlist_order, choice
\* line 190: probabilities = calculate_probabilities(songs, user_mood, t).
\* Iterating a dict yields its keys, and a str key has no ["mood_vector"].
CalcProbabilities ==
    /\ pc = "generate"
    /\ called' = called \cup {"calculate_probabilities"}
    /\ IF songs.kind = "dict"
       THEN Raise("TypeError") /\ UNCHANGED probabilities
       ELSE /\ probabilities' =
                   calculate_probabilities(songs.items, user_mood, temperature)
            /\ pc' = "choice"
            /\ UNCHANGED err
    /\ UNCHANGED <<envVars, songs, moodVars, playVars,
                   temperature, p, found, playlist_order>>

HasNaN(pr) == \E i \in 1..Len(pr) : IsNaN(pr[i])

\* kahan_sum(p): NaN as soon as one entry is
SumP(pr) == IF HasNaN(pr) THEN NaN ELSE SumSeq(pr)

\* choice's atol, sqrt(eps): far above the rounding error of the n divisions
\* that normalised p, so in units of the last place it is n of them
ChoiceAtol(n) == n

CountNonzero(pr) == Cardinality({i \in 1..Len(pr) : pr[i] > 0})

\* np.random.choice(n, size=n, replace=False, p=pr): the checks before the
\* sampling loop; "" when all pass
ChoiceError(n, pr) ==
    CASE IsNaN(SumP(pr)) -> "ValueError: probabilities contain NaN"
      [] ~IsNaN(SumP(pr)) /\ Abs(SumP(pr) - One) > ChoiceAtol(n) ->
             "ValueError: probabilities do not sum to 1"
      [] OTHER ->
             IF CountNonzero(pr) < n
             THEN "ValueError: Fewer non-zero entries in p than size"
             ELSE ""

ChoiceCheck ==
    /\ pc = "choice"
    /\ LET e == ChoiceError(Len(songs.items), probabilities)
       IN  IF e # ""
           THEN Raise(e) /\ UNCHANGED <<p, found>>
           ELSE /\ p' = probabilities
                /\ found' = << >>
                /\ pc' = "sample"
                /\ UNCHANGED err
    /\ UNCHANGED <<envVars, mainVars, moodVars, playVars,
                   temperature, probabilities, playlist_order>>

Range(s) == {s[i] : i \in 1..Len(s)}

\* np.cumsum(p)
Cdf(pr) == [i \in 1..Len(pr) |-> SumSeq(SubSeq(pr, 1, i))]

\* cdf.searchsorted(x, side='right') with cdf /= cdf[-1] and x in [0, 1):
\* the number of cdf entries <= x, x taken in units of cdf[-1]; 0-based
SearchSorted(cdf, x) == Cardinality({i \in 1..Len(cdf) : cdf[i] <= x})

\* the indices one uniform draw can select: searchsorted is a step function
\* of x that changes only where x reaches a cdf entry, so x = 0 and the cdf
\* entries below cdf[-1] give every index a draw in [0, cdf[-1]) can give
Drawable(pr) ==
    LET cdf == Cdf(pr)
        total == cdf[Len(cdf)]
    IN  {SearchSorted(cdf, x) : x \in {y \in {0} \cup Range(cdf) : y < total}}

RECURSIVE Unique(_, _)
\* np.unique(new, return_index=True); unique_indices.sort(); new.take(...):
\* the distinct values of new, each at its first occurrence
Unique(new, seen) ==
    IF new = << >> THEN << >>
    ELSE IF Head(new) \in seen THEN Unique(Tail(new), seen)
    ELSE <<Head(new)>> \o Unique(Tail(new), seen \cup {Head(new)})

\* the found entries keep their probability
ZeroFound_Keeps(pr, fnd) == pr

\* p[flat_found[0:n_uniq]] = 0
ZeroFound(pr, fnd) ==
    [i \in 1..Len(pr) |-> IF (i - 1) \in Range(fnd) THEN 0 ELSE pr[i]]

\* one pass of `while n_uniq < size`
ChoiceRound ==
    /\ pc = "sample"
    /\ Len(found) < Len(songs.items)
    /\ LET pz == ZeroFound(p, found)
           k == Len(songs.items) - Len(found)
       IN  \E new \in [1..k -> Drawable(pz)] :
               /\ p' = pz
               /\ found' = found \o Unique(new, {})
    /\ UNCHANGED <<envVars, mainVars, pc, err, moodVars, playVars,
                   temperature, probabilities, playlist_order>>

\* line 192: return order.tolist()
ChoiceReturn ==
    /\ pc = "sample"
    /\ Len(found) = Len(songs.items)
    /\ playlist_order' = found
    /\ pc' = "play"
    /\ UNCHANGED <<envVars, mainVars, err, moodVars, playVars,
                   temperature, probabilities, p, found>>

\* ------------------------------------------------------------ ask_user_mood
\* characters a typed line is made of
Alphabet == {"0", "1", "a", ",", " "}

Digits == {"0", "1"}

AllInputs == UNION {[1..n -> Alphabet] : n \in 0..MaxInputLen}

\* the lines typed at the prompt in a run of main
MainInputs == {<< >>, <<"a">>, <<"1", ",", "0", ",", "1", ",", "0">>}

\* np.random.rand(4).tolist(): four values in [0, 1)
RandomMoods == {Zeros, <<One - 1, 0, Half, 1>>}

RECURSIVE LStrip(_)
LStrip(s) == IF s # << >> /\ Head(s) = " " THEN LStrip(Tail(s)) ELSE s

RECURSIVE RStrip(_)
RStrip(s) ==
    IF s # << >> /\ s[Len(s)] = " " THEN RStrip(SubSeq(s, 1, Len(s) - 1)) ELSE s

\* str.strip()
Strip(s) == RStrip(LStrip(s))

RECURSIVE Split(_, _)
\* str.split(","): cur is the part being read
Split(s, cur) ==
    IF s = << >> THEN <<cur>>
    ELSE IF Head(s) = "," THEN <<cur>> \o Split(Tail(s), << >>)
    ELSE Split(Tail(s), Append(cur, Head(s)))

\* float(x) accepts x: surrounding whitespace dropped, digits left
IsFloat(x) ==
    LET t == Strip(x)
    IN  t # << >> /\ \A i \in 1..Len(t) : t[i] \in Digits

RECURSIVE DigitsValue(_, _)
DigitsValue(t, acc) ==
    IF t = << >> THEN acc
    ELSE DigitsValue(Tail(t), 10 * acc + (IF Head(t) = "1" THEN 1 ELSE 0))

\* float(x), in units of 1/One
Float(x) == DigitsValue(Strip(x), 0) * One

\* the arity check is missing
ParseMood_NoArity(line) ==
    LET parts == Split(line, << >>)
    IN  IF \E i \in 1..Len(parts) : ~IsFloat(parts[i])
        THEN [mood |-> Neutral, notice |-> "Invalid format"]
        ELSE [mood |-> [i \in 1..Len(parts) |-> Clip(Float(parts[i]))],
              notice |-> ""]

\* lines 168-175: the list comprehension raises ValueError at the first part
\* float() rejects, `raise ValueError` when there are not four parts; both
\* are caught by `except ValueError`
ParseMood(line) ==
    LET parts == Split(line, << >>)
    IN  IF (\E i \in 1..Len(parts) : ~IsFloat(parts[i])) \/ Len(parts) # 4
        THEN [mood |-> Neutral, notice |-> "Invalid format"]
        ELSE [mood |-> [i \in 1..4 |-> Clip(Float(parts[i]))], notice |-> ""]

\* ask_user_mood on a typed line drawn from S
AskOn(S) ==
    /\ pc = "ask"
    /\ called' = called \cup {"ask_user_mood"}
    /\ \E typed \in S :
         /\ inp' = typed
         /\ IF Strip(typed) = << >>
            THEN /\ \E m \in RandomMoods : user_mood' = m
                 /\ notice' = "Randomized mood"
            ELSE /\ user_mood' = ParseMood(Strip(typed)).mood
                 /\ notice' = ParseMood(Strip(typed)).notice
    /\ pc' = "generate"
    /\ UNCHANGED <<envVars, songs, err, orderVars, playVars>>

\* ask_user_mood, any line
AskUserMood == AskOn(AllInputs)

\* ------------------------------------------------------- scan and the cache
\* what librosa measures on a file whose audio decodes
Features == {[tempo |-> 120, rms |-> One \div 10, centroid |-> 2000],
             [tempo |-> 600, rms |-> 2 * One, centroid |-> 20000]}

NoFeatures == [tempo |-> 0, rms |-> 0, centroid |-> 0]

\* a .flac file: whether mutagen reads its header, whether librosa decodes
\* and analyses its audio, and what it measures then
FileKinds ==
    {[header_ok |-> FALSE, audio_ok |-> FALSE, feat |-> NoFeatures],
     [header_ok |-> TRUE, audio_ok |-> FALSE, feat |-> NoFeatures]}
    \cup {[header_ok |-> TRUE, audio_ok |-> TRUE, feat |-> f] : f \in Features}

FileLists == UNION {[1..n -> FileKinds] : n \in 0..MaxFiles}

\* the fallback is the zero vector
auto_generate_mood_ZeroFallback(f) ==
    IF ~f.audio_ok THEN Zeros
    ELSE <<Clip((f.feat.tempo * One) \div 300),
           Clip(f.feat.rms),
           Clip((f.feat.centroid * One) \div 10000),
           Clip((f.feat.tempo * One) \div 300)>>

\* auto_generate_mood: the vector of clipped features, or the neutral vector
\* when anything in the try block raised
auto_generate_mood(f) ==
    IF ~f.audio_ok THEN Neutral
    ELSE <<Clip((f.feat.tempo * One) \div 300),
           Clip(f.feat.rms),
           Clip((f.feat.centroid * One) \div 10000),
           Clip((f.feat.tempo * One) \div 300)>>

\* get_flac_metadata on a file without tags
get_flac_metadata(i) ==
    [title |-> "Unknown Title", artist |-> "Unknown Artist",
     album |-> "Unknown Album",
     full_title |-> "Unknown Album -> Unknown Title - Unknown Artist"]

\* lines 213-220: the record main appends for the file at position i
SongRecord(i, mood) ==
    [file |-> i,
     title |-> get_flac_metadata(i).title,
     artist |-> get_flac_metadata(i).artist,
     album |-> get_flac_metadata(i).album,
     full_title |-> get_flac_metadata(i).full_title,
     mood_vector |-> mood]

\* the artifact: absent, not JSON at all ("invalid"), or JSON: null, {}, a
\* non-empty object, or a list of track records
Artifact(kind, items) == [kind |-> kind, items |-> items]

CachedMoods == {Zeros, Ones}

CachedLists ==
    UNION {{[i \in 1..n |-> SongRecord(i, m[i])] : m \in [1..n -> CachedMoods]}
           : n \in 0..MaxCached}

CacheStates ==
    {Artifact(k, << >>) : k \in {"absent", "invalid", "null", "emptyobj", "object"}}
    \cup {Artifact("list", l) : l \in CachedLists}

\* json.load of an artifact that parses
FromJson(a) ==
    CASE a.kind = "null" -> PyNone
      [] a.kind = "emptyobj" -> PyDict(0)
      [] a.kind = "object" -> PyDict(1)
      [] a.kind = "list" -> PyList(a.items)

\* -------------------------------------------------------------------- main
\* load_cache() is called whatever the flag says
Load_IgnoresFlag ==
    /\ pc = "start"
    /\ called' = called \cup {"load_cache"}
    /\ IF cache.kind = "absent"
       THEN songs' = PyNone /\ pc' = "check" /\ UNCHANGED err
       ELSE IF cache.kind = "invalid"
       THEN Raise("JSONDecodeError") /\ UNCHANGED songs
       ELSE songs' = FromJson(cache) /\ pc' = "check" /\ UNCHANGED err
    /\ UNCHANGED <<envVars, moodVars, orderVars, playVars>>

\* lines 203-205: songs = None; if not force_rescan: songs = load_cache()
Load ==
    /\ pc = "start"
    /\ IF force_rescan
       THEN /\ songs' = PyNone
            /\ pc' = "check"
            /\ UNCHANGED <<called, err>>
       ELSE /\ called' = called \cup {"load_cache"}
            /\ IF cache.kind = "absent"
               THEN songs' = PyNone /\ pc' = "check" /\ UNCHANGED err
               ELSE IF cache.kind = "invalid"
               THEN Raise("JSONDecodeError") /\ UNCHANGED songs
               ELSE songs' = FromJson(cache) /\ pc' = "check" /\ UNCHANGED err
    /\ UNCHANGED <<envVars, moodVars, orderVars, playVars>>

\* lines 207-209: if not songs: files = find_all_flacs(root_folder); songs = []
Check ==
    /\ pc = "check"
    /\ IF ~Truthy(songs)
       THEN /\ called' = called \cup {"find_all_flacs"}
            /\ songs' = PyList(<< >>)
            /\ pc' = "scan"
       ELSE /\ pc' = "ask"
            /\ UNCHANGED <<songs, called>>
    /\ UNCHANGED <<envVars, err, moodVars, orderVars, playVars>>

\* lines 210-220, one file: get_flac_metadata raises on a header mutagen
\* cannot read, outside any try; auto_generate_mood does not raise
ScanFile ==
    /\ pc = "scan"
    /\ Len(songs.items) < Len(files)
    /\ LET i == Len(songs.items) + 1
           f == files[i]
       IN  IF ~f.header_ok
           THEN /\ called' = called \cup {"get_flac_metadata"}
                /\ Raise("FLACNoHeaderError")
                /\ UNCHANGED songs
           ELSE /\ called' = called \cup {"get_flac_metadata", "auto_generate_mood"}
                /\ songs' = PyList(Append(songs.items,
                                          SongRecord(i, auto_generate_mood(f))))
                /\ UNCHANGED <<pc, err>>
    /\ UNCHANGED <<envVars, moodVars, orderVars, playVars>>

\* line 221: save_cache(songs) overwrites the artifact
SaveCache ==
    /\ pc = "scan"
    /\ Len(songs.items) = Len(files)
    /\ called' = called \cup {"save_cache"}
    /\ cache' = Artifact("list", songs.items)
    /\ pc' = "ask"
    /\ UNCHANGED <<force_rescan, cache0, files, songs, err,
                   moodVars, orderVars, playVars>>

\* lines 223-224 in a run of main
MainAsk == AskOn(MainInputs)

\* ---------------------------------------------------------------- playback
\* lines 227-229 and 102-113: display_playlist, then play_song up to its try
StartTrack ==
    /\ pc = "play"
    /\ pos < Len(playlist_order)
    /\ played' = Append(played, playlist_order[pos + 1])
    /\ player' = "playing"
    /\ pc' = "starting"
    /\ UNCHANGED <<envVars, mainVars, err, moodVars, orderVars, pos, interrupted>>

\* line 115: the try block is entered
EnterTry ==
    /\ pc = "starting"
    /\ pc' = "polling"
    /\ UNCHANGED <<envVars, mainVars, err, moodVars, orderVars, playVars>>

\* a KeyboardInterrupt between player.play() and the try: nothing catches
\* it, player.stop() is not reached
InterruptStarting ==
    /\ pc = "starting"
    /\ interrupted' = TRUE
    /\ Raise("KeyboardInterrupt")
    /\ UNCHANGED <<envVars, mainVars, moodVars, orderVars, pos, player, played>>

\* lines 119-121, 134, 138: the state is Ended or Error; break, finally stop
TrackEnds ==
    /\ pc = "polling"
    /\ player' = "stopped"
    /\ pos' = pos + 1
    /\ pc' = "play"
    /\ UNCHANGED <<envVars, mainVars, err, moodVars, orderVars, played, interrupted>>

\* lines 135-138: a KeyboardInterrupt inside the try is caught, the player is
\* stopped and play_song returns normally to main's for loop
InterruptPolling ==
    /\ pc = "polling"
    /\ interrupted' = TRUE
    /\ player' = "stopped"
    /\ pos' = pos + 1
    /\ pc' = "play"
    /\ UNCHANGED <<envVars, mainVars, err, moodVars, orderVars, played>>

\* the for loop is exhausted
LoopDone ==
    /\ pc = "play"
    /\ pos = Len(playlist_order)
    /\ pc' = "done"
    /\ UNCHANGED <<envVars, mainVars, err, moodVars, orderVars, playVars>>

\* ---------------------------------------------------------- specifications
InitRest ==
    /\ called = {}
    /\ err = ""
    /\ inp = << >>
    /\ notice = ""
    /\ probabilities = << >>
    /\ p = << >>
    /\ found = << >>
    /\ playlist_order = << >>
    /\ pos = 0
    /\ player = "none"
    /\ played = << >>
    /\ interrupted = FALSE

\* a run of main
Init ==
    /\ force_rescan \in BOOLEAN
    /\ cache \in CacheStates
    /\ cache0 = cache
    /\ files \in FileLists
    /\ songs = PyNone
    /\ temperature = MainTemperature
    /\ pc = "start"
    /\ user_mood = Neutral
    /\ InitRest

Next ==
    \/ Load
    \/ Check
    \/ ScanFile
    \/ SaveCache
    \/ MainAsk
    \/ CalcProbabilities
    \/ ChoiceCheck
    \/ ChoiceRound
    \/ ChoiceReturn
    \/ StartTrack
    \/ EnterTry
    \/ InterruptStarting
    \/ TrackEnds
    \/ InterruptPolling
    \/ LoopDone

Spec == Init /\ [][Next]_vars

\* libraries the ordering engine is called on
Libraries ==
    UNION {{[i \in 1..n |-> SongRecord(i, m[i])] : m \in [1..n -> MoodSet]}
           : n \in 0..MaxSongs}

\* a call generate_playlist_order(songs, user_mood, temperature)
InitOrder ==
    /\ force_rescan = FALSE
    /\ cache = Artifact("absent", << >>)
    /\ cache0 = cache
    /\ files = << >>
    /\ songs \in {PyList(l) : l \in Libraries}
    /\ temperature \in Temperatures
    /\ pc = "generate"
    /\ InitRest
    /\ user_mood \in MoodSet

NextOrder ==
    \/ CalcProbabilities
    \/ ChoiceCheck
    \/ ChoiceRound
    \/ ChoiceReturn

SpecOrder == InitOrder /\ [][NextOrder]_vars

\* a call ask_user_mood()
InitMood ==
    /\ force_rescan = FALSE
    /\ cache = Artifact("absent", << >>)
    /\ cache0 = cache
    /\ files = << >>
    /\ songs = PyList(<< >>)
    /\ temperature = MainTemperature
    /\ pc = "ask"
    /\ user_mood = Neutral
    /\ InitRest

NextMood == AskUserMood

SpecMood == InitMood /\ [][NextMood]_vars

\* ------------------------------------------------------------------ claims
N == Len(songs.items)

IsPermutation(o, n) ==
    /\ Len(o) = n
    /\ \A i \in 0..(n - 1) : Cardinality({k \in 1..n : o[k] = i}) = 1

\* C1: every order generate_playlist_order returns is a permutation of
\* 0..N-1: length N, each index of [0, N) exactly once.
C1_Permutation == pc = "play" => IsPermutation(playlist_order, N)

C1_Witness ==
    pc = "play" /\ Len(playlist_order) = 3 /\ playlist_order[1] # 0

Returned == "calculate_probabilities" \in called /\ songs.kind = "list"

DistinctDistances ==
    \A i, j \in 1..N :
        i # j => Distances(songs.items, user_mood)[i]
                     # Distances(songs.items, user_mood)[j]

ClosestStrictlyHighest ==
    \A i \in 1..N :
        (\A j \in 1..N : Distances(songs.items, user_mood)[i]
                             <= Distances(songs.items, user_mood)[j])
            => \A j \in 1..N : j # i => probabilities[i] > probabilities[j]

ValidDistribution ==
    /\ Len(probabilities) = N
    /\ \A i \in 1..N : ~IsNaN(probabilities[i]) /\ probabilities[i] >= 0
    /\ Abs(SumSeq(probabilities) - One) <= N
    /\ DistinctDistances => ClosestStrictlyHighest

\* C2: for a non-empty library, any target mood and any temperature > 0,
\* calculate_probabilities returns one entry per track, each >= 0, summing
\* to 1 within tolerance (here the rounding of the N divisions), the track
\* at minimum distance strictly highest when the distances are distinct.
C2_Claim == (Returned /\ N > 0) => ValidDistribution

AllUnderflow ==
    N > 0 /\ \A i \in 1..N : Similarity(songs.items, user_mood, temperature)[i] = 0

\* C7: when every weight underflows to 0, calculate_probabilities fails with
\* an error; it never returns a distribution containing NaN.
C7_Claim ==
    (Returned /\ AllUnderflow) =>
        (pc = "crashed" /\ err = "DegenerateProbabilityDistribution"
         /\ ~HasNaN(probabilities))

\* C10: generate_playlist_order returns the empty order for N = 0 and the
\* order [0] for N = 1, raising no error (stated at the function's default
\* temperature, where no weight of a one-track library underflows).
C10_Claim ==
    (temperature = DefaultTemperature /\ pc \in {"play", "crashed"} /\ N <= 1)
        => (pc = "play" /\ playlist_order = [i \in 1..N |-> 0])

ScanCalls == {"find_all_flacs", "get_flac_metadata", "auto_generate_mood"}

\* C3: without the force-rescan flag, whenever a cache artifact exists,
\* whatever library it holds, the scan and extraction phase is skipped and
\* the library used is exactly the loaded one.
C3_Claim ==
    (~force_rescan /\ cache0.kind = "list") =>
        /\ called \cap ScanCalls = {}
        /\ pc # "start" => songs = PyList(cache0.items)

\* C6: an artifact that exists but is not a list of track records halts a
\* run without the flag with an error at the load step: no rescan, and the
\* artifact is never overwritten.
C6_Claim ==
    (~force_rescan /\ cache0.kind \in {"invalid", "null", "emptyobj", "object"}) =>
        /\ called \cap ScanCalls = {}
        /\ cache = cache0
        /\ pc # "start" => (pc = "crashed" /\ called = {"load_cache"})

\* C4: once a KeyboardInterrupt has been delivered during playback, no track
\* later in the play order is displayed or started.
C4_Claim == [][interrupted => played' = played]_vars

AfterScan == pc = "ask" \/ "ask_user_mood" \in called

\* C5: a failure while decoding or analysing one file's audio does not
\* propagate out of auto_generate_mood: the file's record gets exactly the
\* neutral vector, the scan goes on (it aborts only where get_flac_metadata
\* raises), and the library of a completed scan has one record per file.
C5_Fallback ==
    "find_all_flacs" \in called =>
        /\ \A i \in 1..N :
              /\ songs.items[i].file = i
              /\ ~files[i].audio_ok => songs.items[i].mood_vector = Neutral
        /\ (pc = "crashed" /\ "save_cache" \notin called)
              => ~files[N + 1].header_ok
        /\ "save_cache" \in called => N = Len(files)

C5_Witness ==
    /\ "save_cache" \in called
    /\ Len(files) >= 2
    /\ ~files[1].audio_ok
    /\ songs.items[1].mood_vector = Neutral
    /\ songs.items[2].mood_vector # Neutral

\* C8: with the force-rescan flag main never calls load_cache; before the
\* mood prompt it has rescanned, recomputed every track's mood and
\* overwritten the artifact with the recomputed library.
C8_ForceRescan ==
    force_rescan =>
        /\ "load_cache" \notin called
        /\ AfterScan =>
              /\ {"find_all_flacs", "save_cache"} \subseteq called
              /\ N = Len(files)
              /\ \A i \in 1..N :
                    songs.items[i] = SongRecord(i, auto_generate_mood(files[i]))
              /\ cache = Artifact("list", songs.items)

C8_Witness ==
    /\ force_rescan
    /\ cache0.kind = "list"
    /\ Len(cache0.items) > 0
    /\ pc = "ask"
    /\ Len(files) > 0
    /\ cache # cache0

\* the typed line is malformed: not exactly four comma-separated values, or
\* one of them not numeric
Malformed(line) ==
    LET parts == Split(line, << >>)
    IN  Len(parts) # 4 \/ \E i \in 1..Len(parts) : ~IsFloat(parts[i])

FellBack == user_mood = Neutral /\ notice = "Invalid format" /\ err = ""

\* C9 as stated: every non-empty malformed line yields the neutral mood.
C9_Original ==
    (pc = "generate" /\ inp # << >> /\ Malformed(inp)) => FellBack

\* C9: every malformed line that is not blank (something is left once the
\* surrounding whitespace is stripped) yields exactly the neutral mood, the
\* user is told, and nothing is raised.
C9_Amended ==
    (pc = "generate" /\ Strip(inp) # << >> /\ Malformed(inp)) => FellBack

C9_Witness ==
    pc = "generate" /\ inp = <<"1", ",", "0">> /\ FellBack

====
